---- MODULE Spec2Model ----
(***************************************************************************)
(* Model of kerseq/sequence_encoding.py: the encoders of symbol sequences  *)
(* (sequences_to_indices, padded_indices, FOFE, BOW) and the window        *)
(* expander padded_indices_to_next_symbol_as_output.  Every function is    *)
(* pure; a call is one action that reads the arguments held in the         *)
(* variables and writes the value (or the exception) the code produces.    *)
(***************************************************************************)
EXTENDS Integers, Sequences, FiniteSets, TLC

VARIABLES pc, sequences, index_dict, add_start_symbol, add_end_symbol,
          ndim, padding, max_len, alpha, bidirectional, sparse,
          max_count, df, normalize, X, wpadding, result, out

vars == <<pc, sequences, index_dict, add_start_symbol, add_end_symbol,
          ndim, padding, max_len, alpha, bidirectional, sparse,
          max_count, df, normalize, X, wpadding, result, out>>

----------------------------------------------------------------------------
(* Bounds of the enumerated arguments *)

NSym == 2
MaxLen == 2
MaxSeqs == 2
MaxTotal == 3
MaxNdim == 3
MaxWidth == 4
MaxRows == 2
MaxCells == 6
MaxVal == 2
MaxCount == 2
MaxDf == 2

Symbols == 1..NSym

(* Python's None, and an optional argument that is set *)
None == <<>>
Some(v) == <<v>>
IsNone(o) == Len(o) = 0
Val(o) == o[1]

Range(s) == {s[i] : i \in DOMAIN s}
Min2(a, b) == IF a <= b THEN a ELSE b
Max2(a, b) == IF a >= b THEN a ELSE b

RECURSIVE SumSeq(_)
SumSeq(s) == IF Len(s) = 0 THEN 0 ELSE s[1] + SumSeq(Tail(s))

RECURSIVE Concat(_)
Concat(ss) == IF Len(ss) = 0 THEN <<>> ELSE ss[1] \o Concat(Tail(ss))

RECURSIVE Pow(_, _)
Pow(b, e) == IF e = 0 THEN 1 ELSE b * Pow(b, e - 1)

(* Python's max() of a non-empty collection *)
PyMax(S) == CHOOSE m \in S : \A x \in S : x <= m

SeqsUpTo(S, n) == UNION {[1..k -> S] : k \in 0..n}
SymbolSeqs == SeqsUpTo(Symbols, MaxLen)
TotalLen(seqs) == SumSeq([i \in DOMAIN seqs |-> Len(seqs[i])])

(* lists of at most MaxSeqs sequences holding at most MaxTotal symbols *)
SequenceLists ==
    {ss \in SeqsUpTo(SymbolSeqs, MaxSeqs) : TotalLen(ss) <= MaxTotal}

(* A caller's index: symbols to indices starting from 0 *)
IndexDicts == UNION {[D -> 0..(Cardinality(D) - 1)] : D \in SUBSET Symbols}

(* the indices that map distinct symbols to distinct integers *)
InjectiveIndexDicts ==
    {d \in IndexDicts : \A a, b \in DOMAIN d : d[a] = d[b] => a = b}

(* the index of every symbol in order, as built once and passed to calls *)
OrderedIndexDict == [c \in Symbols |-> c - 1]

Ok(v, d) == [status |-> "ok", value |-> v, index_dict |-> d]
Raise(e) == [status |-> e, value |-> <<>>, index_dict |-> <<>>]
NoResult == [status |-> "none", value |-> <<>>, index_dict |-> <<>>]

----------------------------------------------------------------------------
(* _build_index_dict: enumerate() over a set; the iteration order of a set *)
(* is not defined, so every bijection onto 0..n-1 is a possible outcome.   *)

UniqueSymbols(seqs) == UNION {Range(seqs[i]) : i \in DOMAIN seqs}

BuildIndexDicts(seqs) ==
    LET U == UniqueSymbols(seqs)
    IN  {f \in [U -> 0..(Cardinality(U) - 1)] :
            \A a, b \in U : f[a] = f[b] => a = b}

(* the index a call works with: the caller's, or a freshly built one *)
ResolvedDicts(seqs, idx) ==
    IF IsNone(idx) THEN BuildIndexDicts(seqs) ELSE {Val(idx)}

(* index_dict[c] raising KeyError somewhere in the loops over sequences *)
HasKeyError(seqs, d) ==
    \E i \in DOMAIN seqs : \E j \in DOMAIN seqs[i] : seqs[i][j] \notin DOMAIN d

----------------------------------------------------------------------------
(* sequences_to_indices *)

EncodeSymbolNoShift(d, c) == d[c]

EncodeSymbol(d, c) == d[c] + 1

EncodeSeq(d, seq) == [j \in 1..Len(seq) |-> EncodeSymbol(d, seq[j])]

(* max(max(sequence) for sequence in index_sequences) *)
MaxRaises(iseqs) == Len(iseqs) = 0 \/ \E i \in DOMAIN iseqs : Len(iseqs[i]) = 0

GlobalMax(iseqs) == PyMax({PyMax(Range(iseqs[i])) : i \in DOMAIN iseqs})

AddPrefix(iseqs, v) == [i \in DOMAIN iseqs |-> <<v>> \o iseqs[i]]

AddSuffix(iseqs, v) == [i \in DOMAIN iseqs |-> iseqs[i] \o <<v>>]

SequencesToIndices(seqs, d, add_start, add_end) ==
    IF HasKeyError(seqs, d) THEN Raise("KeyError")
    ELSE LET iseqs == [i \in DOMAIN seqs |-> EncodeSeq(d, seqs[i])]
         IN  IF MaxRaises(iseqs) THEN Raise("ValueError")
             ELSE LET mv0 == GlobalMax(iseqs)
                      mv1 == IF add_start THEN mv0 + 1 ELSE mv0
                      s1  == IF add_start THEN AddPrefix(iseqs, mv1) ELSE iseqs
                      mv2 == IF add_end THEN mv1 + 1 ELSE mv1
                      s2  == IF add_end THEN AddSuffix(s1, mv2) ELSE s1
                  IN  Ok(s2, d)

----------------------------------------------------------------------------
(* Arguments a specification does not use keep their defaults *)

DefaultsIdx ==
    /\ ndim = 2 /\ padding = "pre" /\ max_len = None

DefaultsNum ==
    /\ alpha = <<7, 10>> /\ bidirectional = FALSE /\ sparse = FALSE
    /\ max_count = None /\ df = None /\ normalize = FALSE

DefaultsWin == X = <<>> /\ wpadding = "pre" /\ out = NoResult

InitIdx ==
    /\ pc = "ready"
    /\ sequences \in SequenceLists
    /\ index_dict \in {None} \cup {Some(d) : d \in IndexDicts}
    /\ add_start_symbol \in BOOLEAN
    /\ add_end_symbol \in BOOLEAN
    /\ result = NoResult
    /\ DefaultsIdx /\ DefaultsNum /\ DefaultsWin

CallSequencesToIndices ==
    /\ pc = "ready"
    /\ \E d \in ResolvedDicts(sequences, index_dict) :
          result' = SequencesToIndices(sequences, d,
                                       add_start_symbol, add_end_symbol)
    /\ pc' = "done"
    /\ UNCHANGED <<sequences, index_dict, add_start_symbol, add_end_symbol,
                   ndim, padding, max_len, alpha, bidirectional, sparse,
                   max_count, df, normalize, X, wpadding, out>>

NextIdx == CallSequencesToIndices

SpecIdx == InitIdx /\ [][NextIdx]_vars

----------------------------------------------------------------------------
(* padded_indices *)

Paddings == {"pre", "post"}

Ones(n) == [k \in 1..n |-> 1]

(* numpy's rule for result[...] = x: the shape of x, aligned on the last   *)
(* axis, must match the target's axis or be 1                              *)
CanBroadcast(src, dst) ==
    /\ Len(src) <= Len(dst)
    /\ \A k \in 1..Len(src) :
          LET s == src[Len(src) - k + 1]
              t == dst[Len(dst) - k + 1]
          IN  s = t \/ s = 1

(* length of the slice result[i, :len(x)] or result[i, -len(x):] of an     *)
(* axis of length ml                                                       *)
SliceLen(len, ml, pad) ==
    IF pad = "pre" /\ len = 0 THEN ml ELSE Min2(len, ml)

RowAssignOk(x, ml, nd, pad) ==
    pad \in Paddings =>
        CanBroadcast(<<Len(x)>>, <<SliceLen(Len(x), ml, pad)>> \o Ones(nd - 2))

PlaceRowAtStart(x, ml, pad) ==
    [c \in 1..ml |-> IF pad \in Paddings /\ c <= Len(x) THEN x[c] ELSE 0]

PlaceRow(x, ml, pad) ==
    [c \in 1..ml |->
        IF pad = "post" /\ c <= Len(x) THEN x[c]
        ELSE IF pad = "pre" /\ c > ml - Len(x) THEN x[c - (ml - Len(x))]
        ELSE 0]

OkArray(v, d, shp) ==
    [status |-> "ok", value |-> v, index_dict |-> d, shape |-> shp]

PaddedIndices(seqs, d, nd, pad, add_start, add_end, mlen) ==
    LET r == SequencesToIndices(seqs, d, add_start, add_end)
    IN  IF r.status # "ok" THEN r
        ELSE LET iseqs == r.value
                 ml == IF IsNone(mlen)
                       THEN PyMax({Len(iseqs[i]) : i \in DOMAIN iseqs})
                       ELSE Val(mlen)
                 n_samples == Len(iseqs)
             IN  IF nd < 2 THEN Raise("ValueError")
                 ELSE IF \E i \in DOMAIN iseqs : ~RowAssignOk(iseqs[i], ml, nd, pad)
                      THEN Raise("ValueError")
                      ELSE OkArray([i \in DOMAIN iseqs |-> PlaceRow(iseqs[i], ml, pad)],
                                   d, <<n_samples, ml>> \o Ones(nd - 2))

----------------------------------------------------------------------------
(* padded_indices_to_next_symbol_as_output *)

CountPositive(row) == Cardinality({c \in DOMAIN row : row[c] > 0})

SamplesInRow(Xm) == [i \in DOMAIN Xm |-> CountPositive(Xm[i]) - 1]

(* the (context, target) written for sample j of a row; d is the width *)
PairOfPreFromStart(row, d, k, j, pad) ==
    IF pad = "post"
    THEN [ctx |-> [c \in 1..(d - 1) |-> IF c <= j THEN row[c] ELSE 0],
          y |-> row[j + 1]]
    ELSE IF pad = "pre"
    THEN [ctx |-> [c \in 1..(d - 1) |->
                     IF c > d - 1 - j THEN row[c - (d - 1 - j)] ELSE 0],
          y |-> row[j + 1]]
    ELSE [ctx |-> [c \in 1..(d - 1) |-> 0], y |-> 0]

PairOfPostShifted(row, d, k, j, pad) ==
    IF pad = "post"
    THEN [ctx |-> [c \in 1..(d - 1) |-> IF c <= j THEN row[c] ELSE 0],
          y |-> row[j]]
    ELSE IF pad = "pre"
    THEN [ctx |-> [c \in 1..(d - 1) |->
                     IF c > d - 1 - j THEN row[(d - k) + (c - (d - 1 - j))] ELSE 0],
          y |-> row[d - k + j + 1]]
    ELSE [ctx |-> [c \in 1..(d - 1) |-> 0], y |-> 0]

PairOf(row, d, k, j, pad) ==
    IF pad = "post"
    THEN [ctx |-> [c \in 1..(d - 1) |-> IF c <= j THEN row[c] ELSE 0],
          y |-> row[j + 1]]
    ELSE IF pad = "pre"
    THEN [ctx |-> [c \in 1..(d - 1) |->
                     IF c > d - 1 - j THEN row[(d - k) + (c - (d - 1 - j))] ELSE 0],
          y |-> row[d - k + j + 1]]
    ELSE [ctx |-> [c \in 1..(d - 1) |-> 0], y |-> 0]

(* for j in range(1, samp_row_adj) *)
PairsOfRow(row, d, samples, pad) ==
    [j \in 1..samples |-> PairOf(row, d, samples + 1, j, pad)]

NextSymbolAsOutput(Xm, pad) ==
    LET d == Len(Xm[1])
        samples_in_row == SamplesInRow(Xm)
        total_output_samples == SumSeq(samples_in_row)
        written == Concat([i \in DOMAIN Xm |->
                             PairsOfRow(Xm[i], d, samples_in_row[i], pad)])
    IN  IF total_output_samples < 0 THEN Raise("ValueError")
        ELSE IF Len(written) > total_output_samples THEN Raise("IndexError")
        ELSE [status |-> "ok",
              X_out |-> [n \in DOMAIN written |-> written[n].ctx],
              y_out |-> [n \in DOMAIN written |-> written[n].y],
              shape |-> <<total_output_samples, d - 1>>]

----------------------------------------------------------------------------
(* padded_indices, then the expansion of the matrix it returned *)

InitPad ==
    /\ pc = "ready"
    /\ sequences \in SequenceLists
    /\ index_dict \in {None, Some(OrderedIndexDict)}
    /\ add_start_symbol \in BOOLEAN
    /\ add_end_symbol \in BOOLEAN
    /\ ndim \in {1, 2, MaxNdim}
    /\ padding \in Paddings
    /\ max_len \in {None} \cup {Some(m) : m \in {2, MaxLen + 2}}
    /\ result = NoResult
    /\ DefaultsNum /\ DefaultsWin

CallPaddedIndices ==
    /\ pc = "ready"
    /\ \E d \in ResolvedDicts(sequences, index_dict) :
          result' = PaddedIndices(sequences, d, ndim, padding,
                                  add_start_symbol, add_end_symbol, max_len)
    /\ pc' = "padded"
    /\ UNCHANGED <<sequences, index_dict, add_start_symbol, add_end_symbol,
                   ndim, padding, max_len, alpha, bidirectional, sparse,
                   max_count, df, normalize, X, wpadding, out>>

(* X : 2D array generated by padded_indices *)
CallNextSymbolOnPadded ==
    /\ pc = "padded"
    /\ result.status = "ok"
    /\ ndim = 2
    /\ X' = result.value
    /\ \E p \in Paddings :
          /\ wpadding' = p
          /\ out' = NextSymbolAsOutput(result.value, p)
    /\ pc' = "expanded"
    /\ UNCHANGED <<sequences, index_dict, add_start_symbol, add_end_symbol,
                   ndim, padding, max_len, alpha, bidirectional, sparse,
                   max_count, df, normalize, result>>

NextPad == CallPaddedIndices \/ CallNextSymbolOnPadded

SpecPad == InitPad /\ [][NextPad]_vars

----------------------------------------------------------------------------
(* padded_indices_to_next_symbol_as_output on any non-negative matrix *)

Rows(w) == [1..w -> 0..MaxVal]

(* matrices of at most MaxRows rows, MaxWidth columns and MaxCells cells *)
Matrices ==
    UNION {[1..n -> Rows(w)] :
             <<n, w>> \in {q \in (1..MaxRows) \X (1..MaxWidth) : q[1] * q[2] <= MaxCells}}

InitWin ==
    /\ pc = "ready"
    /\ X \in Matrices
    /\ wpadding \in Paddings
    /\ out = NoResult
    /\ sequences = <<>> /\ index_dict = None
    /\ add_start_symbol = TRUE /\ add_end_symbol = TRUE
    /\ result = NoResult
    /\ DefaultsIdx /\ DefaultsNum

CallNextSymbol ==
    /\ pc = "ready"
    /\ out' = NextSymbolAsOutput(X, wpadding)
    /\ pc' = "expanded"
    /\ UNCHANGED <<sequences, index_dict, add_start_symbol, add_end_symbol,
                   ndim, padding, max_len, alpha, bidirectional, sparse,
                   max_count, df, normalize, X, wpadding, result>>

NextWin == CallNextSymbol

SpecWin == InitWin /\ [][NextWin]_vars

----------------------------------------------------------------------------
(* FOFE.  alpha is a rational <<numerator, denominator>>; every cell is    *)
(* kept exactly as num/den over the common denominator                     *)
(* denominator ^ MaxLen.                                                   *)

Alphas == {<<1, 1>>, <<7, 10>>}

(* alpha ** e as a numerator over a[2] ^ MaxLen *)
AlphaPow(a, e) == Pow(a[1], e) * Pow(a[2], MaxLen - e)

NSymbols(d) == Cardinality(DOMAIN d)

(* result[i, col] after the loop over the positions 1..n of seq, the       *)
(* position j (counted from 0) adding weight(j) to column colOf(j)         *)
RECURSIVE FofeCellOverwrite(_, _, _, _, _, _)
FofeCellOverwrite(seq, d, a, off, col, n) ==
    IF n = 0 THEN 0
    ELSE LET j == n - 1
             l == Len(seq)
             w == IF off = 0 THEN AlphaPow(a, l - j - 1) ELSE AlphaPow(a, j)
         IN  IF off + d[seq[n]] = col
             THEN w
             ELSE FofeCellOverwrite(seq, d, a, off, col, n - 1)

RECURSIVE FofeCell(_, _, _, _, _, _)
FofeCell(seq, d, a, off, col, n) ==
    IF n = 0 THEN 0
    ELSE LET j == n - 1
             l == Len(seq)
             w == IF off = 0 THEN AlphaPow(a, l - j - 1) ELSE AlphaPow(a, j)
         IN  FofeCell(seq, d, a, off, col, n - 1)
               + (IF off + d[seq[n]] = col THEN w ELSE 0)

Fofe(seqs, a, bidir, d, sp) ==
    LET n_seq == Len(seqs)
        n_symbols == NSymbols(d)
        num_cols == IF bidir THEN 2 * n_symbols ELSE n_symbols
    IN  IF HasKeyError(seqs, d) THEN Raise("KeyError")
        ELSE [status |-> "ok",
              value |-> [i \in 1..n_seq |-> [c \in 1..num_cols |->
                  [num |-> IF c <= n_symbols
                           THEN FofeCell(seqs[i], d, a, 0, c - 1, Len(seqs[i]))
                           ELSE FofeCell(seqs[i], d, a, n_symbols, c - 1, Len(seqs[i])),
                   den |-> Pow(a[2], MaxLen)]]],
              index_dict |-> d,
              shape |-> <<n_seq, num_cols>>,
              format |-> IF sp THEN "csr" ELSE "ndarray"]

InitFofe ==
    /\ pc = "ready"
    /\ sequences \in SequenceLists
    /\ index_dict \in {None} \cup {Some(d) : d \in InjectiveIndexDicts}
    /\ alpha \in Alphas
    /\ bidirectional \in BOOLEAN
    /\ sparse \in BOOLEAN
    /\ max_count = None /\ df = None /\ normalize = FALSE
    /\ add_start_symbol = TRUE /\ add_end_symbol = TRUE
    /\ result = NoResult
    /\ DefaultsIdx /\ DefaultsWin

CallFOFE ==
    /\ pc = "ready"
    /\ \E d \in ResolvedDicts(sequences, index_dict) :
          result' = Fofe(sequences, alpha, bidirectional, d, sparse)
    /\ pc' = "done"
    /\ UNCHANGED <<sequences, index_dict, add_start_symbol, add_end_symbol,
                   ndim, padding, max_len, alpha, bidirectional, sparse,
                   max_count, df, normalize, X, wpadding, out>>

NextFofe == CallFOFE

SpecFofe == InitFofe /\ [][NextFofe]_vars

----------------------------------------------------------------------------
(* BOW, dense storage (sparse=False).  A cell is the float num/den:        *)
(* den = 0 with num = 0 is NaN, den = 0 with num # 0 is +-inf, which is    *)
(* what numpy's division leaves in the array.                              *)

(* np.minimum(count + 1, max_count), max_count = None meaning np.infty *)
ClampNext(count, mc) == IF IsNone(mc) THEN count + 1 ELSE Min2(count + 1, Val(mc))

RECURSIVE BowCount(_, _, _, _, _)
BowCount(seq, d, mc, col, n) ==
    IF n = 0 THEN 0
    ELSE LET before == BowCount(seq, d, mc, col, n - 1)
         IN  IF d[seq[n]] = col THEN ClampNext(before, mc) ELSE before

(* n/x is a power of two, so that log2 is an integer *)
IsPow2Ratio(n, x) ==
    \E e \in 0..(MaxSeqs + MaxDf) : n = x * Pow(2, e) \/ x = n * Pow(2, e)

RECURSIVE Log2Ratio(_, _)
Log2Ratio(n, x) ==
    IF n = x THEN 0
    ELSE IF n > x THEN 1 + Log2Ratio(n, 2 * x)
    ELSE Log2Ratio(2 * n, x) - 1

DfVectors(n_seq, n_symbols) ==
    IF n_seq = 0 THEN {}
    ELSE [1..n_symbols -> {x \in 1..MaxDf : IsPow2Ratio(n_seq, x)}]

(* counts *= np.log2(float(n_seq)/df) *)
Weighted(count, n_seq, dfv, col) ==
    IF IsNone(dfv) THEN count ELSE count * Log2Ratio(n_seq, Val(dfv)[col])

(* counts /= counts.sum(1)[:, np.newaxis] *)
Divide(v, rowsum) == [num |-> v, den |-> rowsum]

Bow(seqs, d, mc, dfv, norm) ==
    LET n_seq == Len(seqs)
        n_symbols == NSymbols(d)
        w == [i \in 1..n_seq |-> [c \in 1..n_symbols |->
                 Weighted(BowCount(seqs[i], d, mc, c - 1, Len(seqs[i])),
                          n_seq, dfv, c)]]
    IN  IF HasKeyError(seqs, d) THEN Raise("KeyError")
        ELSE [status |-> "ok",
              value |-> [i \in 1..n_seq |-> [c \in 1..n_symbols |->
                  IF norm THEN Divide(w[i][c], SumSeq(w[i]))
                  ELSE [num |-> w[i][c], den |-> 1]]],
              index_dict |-> d,
              shape |-> <<n_seq, n_symbols>>]

InitBow ==
    /\ pc = "ready"
    /\ sequences \in SequenceLists
    /\ index_dict \in {None} \cup {Some(d) : d \in IndexDicts}
    /\ max_count \in {None} \cup {Some(m) : m \in 0..MaxCount}
    /\ normalize \in BOOLEAN
    /\ df = None
    /\ sparse = FALSE
    /\ alpha = <<7, 10>> /\ bidirectional = FALSE
    /\ add_start_symbol = TRUE /\ add_end_symbol = TRUE
    /\ result = NoResult
    /\ DefaultsIdx /\ DefaultsWin

CallBOW ==
    /\ pc = "ready"
    /\ \E d \in ResolvedDicts(sequences, index_dict) :
         \E dfv \in {None} \cup {Some(v) : v \in DfVectors(Len(sequences), NSymbols(d))} :
            /\ df' = dfv
            /\ result' = Bow(sequences, d, max_count, dfv, normalize)
    /\ pc' = "done"
    /\ UNCHANGED <<sequences, index_dict, add_start_symbol, add_end_symbol,
                   ndim, padding, max_len, alpha, bidirectional, sparse,
                   max_count, normalize, X, wpadding, out>>

NextBow == CallBOW

SpecBow == InitBow /\ [][NextBow]_vars

----------------------------------------------------------------------------
(* Properties *)

StripZeros(row) == SelectSeq(row, LAMBDA v : v # 0)

Zeros(n) == [k \in 1..n |-> 0]

Last(s) == s[Len(s)]

(* C2: after sequences_to_indices returns, the START and END sentinels are *)
(* strictly greater than index_dict[s] + 1 for every symbol s of the       *)
(* index, also when the index holds symbols absent from the sequences.     *)
C2_SentinelsAboveVocabulary ==
    (pc = "done" /\ result.status = "ok") =>
        \A s \in DOMAIN result.index_dict :
            /\ add_start_symbol => result.value[1][1] > result.index_dict[s] + 1
            /\ add_end_symbol => Last(result.value[1]) > result.index_dict[s] + 1

(* C3: with both sentinels requested, every returned index sequence starts *)
(* with the same START = (global maximum of index_dict[c] + 1) + 1, ends   *)
(* with START + 1, and holds index_dict[c] + 1 for the symbols c of its    *)
(* input sequence, in order, in between.                                   *)
C3_SentinelsFrameEverySequence ==
    (pc = "done" /\ result.status = "ok" /\ add_start_symbol /\ add_end_symbol) =>
        LET d == result.index_dict
            v == result.value
            START == 1 + PyMax(UNION {{d[sequences[i][j]] + 1 :
                                         j \in DOMAIN sequences[i]} :
                                       i \in DOMAIN sequences})
        IN  /\ Len(v) = Len(sequences)
            /\ \A i \in DOMAIN sequences :
                  /\ Len(v[i]) = Len(sequences[i]) + 2
                  /\ v[i][1] = START
                  /\ Last(v[i]) = START + 1
                  /\ \A j \in DOMAIN sequences[i] :
                        v[i][j + 1] = d[sequences[i][j]] + 1

C3_Witness ==
    /\ pc = "done" /\ result.status = "ok"
    /\ add_start_symbol /\ add_end_symbol
    /\ Len(sequences) = 2
    /\ Len(sequences[1]) = 1 /\ Len(sequences[2]) = 2
    /\ result.index_dict[sequences[1][1]] < result.index_dict[sequences[2][2]]

----------------------------------------------------------------------------
(* padded_indices *)

(* the matrix padded_indices returns for the same call with another padding *)
PaddedAs(pad) ==
    PaddedIndices(sequences, result.index_dict, ndim, pad,
                  add_start_symbol, add_end_symbol, max_len)

IndexSequencesOfCall ==
    SequencesToIndices(sequences, result.index_dict,
                       add_start_symbol, add_end_symbol).value

(* C4: with max_len unset, the 'pre' and the 'post' matrix of the same     *)
(* call have the same shape (n_sequences, longest index sequence); row i   *)
(* of either, with its zeros removed, is index sequence i; the zeros are   *)
(* all at the end of a 'post' row and all at the beginning of a 'pre' row. *)
C4_PrePostSameContent ==
    (pc = "padded" /\ result.status = "ok" /\ IsNone(max_len) /\ ndim = 2) =>
        LET pre == PaddedAs("pre")
            post == PaddedAs("post")
            iseqs == IndexSequencesOfCall
            longest == PyMax({Len(iseqs[i]) : i \in DOMAIN iseqs})
        IN  /\ result = PaddedAs(padding)
            /\ pre.status = "ok" /\ post.status = "ok"
            /\ pre.shape = <<Len(sequences), longest>>
            /\ post.shape = pre.shape
            /\ \A i \in DOMAIN sequences :
                  LET n == Len(iseqs[i])
                  IN  /\ Len(pre.value[i]) = longest
                      /\ Len(post.value[i]) = longest
                      /\ StripZeros(pre.value[i]) = iseqs[i]
                      /\ StripZeros(post.value[i]) = iseqs[i]
                      /\ \A c \in 1..longest :
                            /\ (post.value[i][c] = 0) <=> (c > n)
                            /\ (pre.value[i][c] = 0) <=> (c <= longest - n)

C4_Witness ==
    /\ pc = "padded" /\ result.status = "ok" /\ IsNone(max_len) /\ ndim = 2
    /\ padding = "pre"
    /\ Len(sequences) = 2
    /\ Len(sequences[1]) < Len(sequences[2])
    /\ result.value[1][1] = 0
    /\ PaddedAs("post").value[1][1] # 0

(* a call the code has no reason to reject: a non-empty list of non-empty  *)
(* sequences over symbols of the index, and a max_len that fits            *)
ValidPadInput ==
    /\ Len(sequences) > 0
    /\ \A i \in DOMAIN sequences : Len(sequences[i]) > 0
    /\ IsNone(index_dict) \/ ~HasKeyError(sequences, Val(index_dict))
    /\ \/ IsNone(max_len)
       \/ \A i \in DOMAIN sequences :
             Len(sequences[i]) + (IF add_start_symbol THEN 1 ELSE 0)
                               + (IF add_end_symbol THEN 1 ELSE 0) <= Val(max_len)

(* C8: for ndim > 2 and a valid input, padded_indices succeeds and returns *)
(* the ndim = 2 matrix with ndim - 2 trailing axes of length 1.            *)
C8_HigherRankSucceeds ==
    (pc = "padded" /\ ndim > 2 /\ ValidPadInput) =>
        /\ result.status = "ok"
        /\ LET flat == PaddedIndices(sequences, result.index_dict, 2, padding,
                                     add_start_symbol, add_end_symbol, max_len)
           IN  /\ result.value = flat.value
               /\ result.shape = flat.shape \o Ones(ndim - 2)

----------------------------------------------------------------------------
(* padded_indices_to_next_symbol_as_output *)

(* pairs of a row by its non-zero entries nz: sample j has the first j of  *)
(* them as context, left- or right-aligned in width d - 1, and the         *)
(* (j+1)-th as target                                                      *)
PrefixPairs(nz, d, pad) ==
    [j \in 1..(Len(nz) - 1) |->
        [ctx |-> IF pad = "post"
                 THEN SubSeq(nz, 1, j) \o Zeros(d - 1 - j)
                 ELSE Zeros(d - 1 - j) \o SubSeq(nz, 1, j),
         y |-> nz[j + 1]]]

AllPrefixPairs(Xm, pad) ==
    Concat([i \in DOMAIN Xm |-> PrefixPairs(StripZeros(Xm[i]), Len(Xm[1]), pad)])

OutPairs(o) == [n \in DOMAIN o.X_out |-> [ctx |-> o.X_out[n], y |-> o.y_out[n]]]

PairSet(o) == {<<StripZeros(o.X_out[n]), o.y_out[n]>> : n \in DOMAIN o.X_out}

IsPostPadded(row) ==
    \A c \in DOMAIN row : row[c] = 0 => \A c2 \in c..Len(row) : row[c2] = 0

(* C1 as stated: with padding='post', sample j of a row has the first j    *)
(* NON-ZERO entries of the row, then zeros, as context and the (j+1)-th    *)
(* non-zero entry as target, also when zeros precede the non-zero entries. *)
C1_PostUsesNonZeroEntries ==
    (pc = "expanded" /\ wpadding = "post" /\ out.status = "ok") =>
        OutPairs(out) = AllPrefixPairs(X, "post")

(* C1 amended: with padding='post', sample j of a row is taken by          *)
(* position: context row[0:j] then zeros up to width d-1, target row[j];   *)
(* on rows whose zeros all follow the non-zero entries these are the first *)
(* j non-zero entries and the (j+1)-th, so the target is not 0.            *)
C1_PostUsesPositions ==
    (pc = "expanded" /\ wpadding = "post" /\ out.status = "ok") =>
        LET d == Len(X[1])
            byPos == Concat([i \in DOMAIN X |->
                        [j \in 1..(CountPositive(X[i]) - 1) |->
                            [ctx |-> SubSeq(X[i], 1, j) \o Zeros(d - 1 - j),
                             y |-> X[i][j + 1]]]])
        IN  /\ OutPairs(out) = byPos
            /\ (\A i \in DOMAIN X : IsPostPadded(X[i])) =>
                  /\ OutPairs(out) = AllPrefixPairs(X, "post")
                  /\ \A n \in DOMAIN out.y_out : out.y_out[n] # 0

C1_Witness ==
    /\ pc = "expanded" /\ wpadding = "post" /\ out.status = "ok"
    /\ Len(X) = 1 /\ Len(X[1]) = 4
    /\ X[1][1] = 0 /\ X[1][2] = 0 /\ X[1][3] > 0 /\ X[1][4] > 0
    /\ out.X_out = <<Zeros(3)>>
    /\ out.y_out = <<0>>

C1_WitnessPostPadded ==
    /\ pc = "expanded" /\ wpadding = "post" /\ out.status = "ok"
    /\ Len(X) = 1 /\ Len(X[1]) = 3
    /\ X[1][1] > 0 /\ X[1][2] > 0 /\ X[1][3] = 0
    /\ Len(out.y_out) = 1
    /\ out.y_out[1] = X[1][2]

(* C5: for every matrix the call returns without error; the context array  *)
(* has width d-1, there is one target per context row, and a row with k    *)
(* non-zero entries gives k-1 pairs if k >= 2 and none if k < 2.           *)
C5_AlwaysReturnsKMinusOnePairs ==
    (pc = "expanded") =>
        LET d == Len(X[1])
            expected == SumSeq([i \in DOMAIN X |->
                                  Max2(CountPositive(X[i]) - 1, 0)])
        IN  /\ out.status = "ok"
            /\ out.shape = <<expected, d - 1>>
            /\ Len(out.X_out) = expected
            /\ Len(out.y_out) = expected
            /\ \A n \in DOMAIN out.X_out : Len(out.X_out[n]) = d - 1

(* C10: a 'pre' matrix of padded_indices expanded with padding='pre':      *)
(* sample j of a row has the first j non-zero entries of the row in the    *)
(* last j columns of a width d-1 context, zeros elsewhere, and the         *)
(* (j+1)-th non-zero entry as target; the (context without zeros, target)  *)
(* pairs are those of the 'post' matrix expanded with padding='post'.      *)
C10_PreMirrorsPost ==
    (pc = "expanded" /\ padding = "pre" /\ wpadding = "pre") =>
        LET postOut == NextSymbolAsOutput(PaddedAs("post").value, "post")
        IN  /\ out.status = "ok"
            /\ OutPairs(out) = AllPrefixPairs(X, "pre")
            /\ out.shape = <<Len(out.X_out), Len(X[1]) - 1>>
            /\ postOut.status = "ok"
            /\ PairSet(out) = PairSet(postOut)

C10_Witness ==
    /\ pc = "expanded" /\ padding = "pre" /\ wpadding = "pre"
    /\ out.status = "ok"
    /\ Len(X) = 2
    /\ X[1][1] = 0
    /\ CountPositive(X[1]) >= 2
    /\ CountPositive(X[2]) > CountPositive(X[1])
    /\ Len(out.y_out) >= 3

----------------------------------------------------------------------------
(* FOFE *)

Occurrences(seq, s) == Cardinality({j \in DOMAIN seq : seq[j] = s})

(* C9: with alpha = 1, bidirectional = False and an injective index, FOFE  *)
(* returns a (n_sequences, n_symbols) matrix whose cell [i, index[s]] is   *)
(* the number of occurrences of s in sequence i.                           *)
C9_AlphaOneCounts ==
    (pc = "done" /\ result.status = "ok" /\ alpha = <<1, 1>> /\ ~bidirectional) =>
        LET d == result.index_dict
        IN  /\ result.shape = <<Len(sequences), NSymbols(d)>>
            /\ Len(result.value) = Len(sequences)
            /\ \A i \in DOMAIN sequences :
                  /\ Len(result.value[i]) = NSymbols(d)
                  /\ \A s \in DOMAIN d :
                        result.value[i][d[s] + 1] =
                            [num |-> Occurrences(sequences[i], s), den |-> 1]

C9_Witness ==
    /\ pc = "done" /\ result.status = "ok" /\ alpha = <<1, 1>>
    /\ ~bidirectional
    /\ NSymbols(result.index_dict) = 2
    /\ \E i \in DOMAIN sequences : \E s \in DOMAIN result.index_dict :
          /\ Occurrences(sequences[i], s) = 2
          /\ result.value[i][result.index_dict[s] + 1].num = 2

----------------------------------------------------------------------------
(* BOW *)

IsFinite(cell) == cell.den # 0

(* the cells of a row add up to 1 *)
RowSumsToOne(row) ==
    \E s \in {row[c].den : c \in DOMAIN row} :
        /\ s # 0
        /\ \A c \in DOMAIN row : row[c].den = s
        /\ SumSeq([c \in DOMAIN row |-> row[c].num]) = s

(* C6: BOW with normalize=True never returns a matrix holding NaN or an    *)
(* infinite value; on a row whose counts sum to zero it fails instead.     *)
C6_ZeroRowIsAnError ==
    (pc = "done" /\ normalize /\ result.status = "ok") =>
        \A i \in DOMAIN result.value : \A c \in DOMAIN result.value[i] :
            IsFinite(result.value[i][c])

(* C7: BOW with normalize=True, any max_count, with or without df: every   *)
(* output row of a sequence with at least one symbol sums to 1.            *)
C7_NormalizedRowsSumToOne ==
    (pc = "done" /\ normalize /\ result.status = "ok") =>
        \A i \in DOMAIN sequences :
            Len(sequences[i]) >= 1 => RowSumsToOne(result.value[i])

====
